---------------------------- MODULE Spec2Model ----------------------------
(***************************************************************************)
(* Model of the two caches of pydelicious' dlcs tool:                      *)
(*   - CachedHandler (build/lib/pydelicious/tools/cache.py), the urllib2   *)
(*     handler that answers GET requests from files of a cache directory;  *)
(*   - cached_tags / cached_posts (tools/dlcs.py), the two snapshot files  *)
(*     refreshed by comparing their mtime with posts/update.               *)
(*                                                                         *)
(* Strings are sequences of one-character strings, so that quote(), int(), *)
(* str() and hexdigest() are computed and not assumed.  The free names of  *)
(* cache.py that the file never imports (quote, md5, email, Message) have  *)
(* their standard-library meaning.  The fields of the handler object are   *)
(* the ones its constructor sets.                                          *)
(***************************************************************************)
EXTENDS Integers, Sequences, FiniteSets, TLC

VARIABLES
    store,      \* the cache directory: file name (quoted URL) -> parsed file
    remote,     \* per URL: how often the remote resource changed since the start
    last,       \* what the last fetch did and returned
    files,      \* the two snapshot files: present, bytes, modification time
    now,        \* the local clock, in ticks
    update,     \* the time posts/update reports, in seconds
    collection, \* per kind: how often the remote collection changed
    lastLoad    \* what the last load did and returned

cacheVars == <<store, remote, last>>
snapVars == <<files, now, update, collection, lastLoad>>
vars == <<store, remote, last, files, now, update, collection, lastLoad>>

---------------------------------------------------------------------------
(* Bounds *)

\* longest payload of a file of the cache directory at the start
MaxPayloadLen == 1

\* changes of remote resources in one behaviour
MaxChanges == 1

\* the local clock stops here, in ticks
MaxTick == 3

\* changes of a remote collection in one behaviour
MaxEdits == 1

\* getmtime has sub-second resolution; posts/update reports whole seconds
TicksPerSecond == 2

\* longest URL the keys are compared on
MaxUrlLen == 3

\* longest text of an entry file, in tokens
MaxTextLen == 32

---------------------------------------------------------------------------
(* Strings *)

None == <<>>
Some(x) == <<x>>

PayloadChars == {"x", "y"}

RECURSIVE SeqsUpTo(_, _)
SeqsUpTo(S, n) ==
    IF n = 0 THEN {<<>>}
    ELSE LET shorter == SeqsUpTo(S, n - 1)
         IN  shorter \cup {Append(s, c) : s \in {t \in shorter : Len(t) = n - 1}, c \in S}

Payloads == SeqsUpTo(PayloadChars, MaxPayloadLen)

Digits == <<"0", "1", "2", "3", "4", "5", "6", "7", "8", "9">>
HexDigits == Digits \o <<"a", "b", "c", "d", "e", "f">>

DigitValue(c) == CHOOSE d \in 0..9 : Digits[d + 1] = c

IsDigit(c) == \E d \in 0..9 : Digits[d + 1] = c

\* str(n) of a non-negative integer
RECURSIVE IntToStr(_)
IntToStr(n) ==
    IF n < 10 THEN <<Digits[n + 1]>>
    ELSE Append(IntToStr(n \div 10), Digits[(n % 10) + 1])

\* int(s) succeeds on a non-empty string of decimal digits
IntParses(s) == Len(s) > 0 /\ \A i \in 1..Len(s) : IsDigit(s[i])

RECURSIVE StrToInt(_)
StrToInt(s) ==
    IF Len(s) = 0 THEN 0
    ELSE 10 * StrToInt(SubSeq(s, 1, Len(s) - 1)) + DigitValue(s[Len(s)])

RECURSIVE ToHex(_)
ToHex(n) ==
    IF n < 16 THEN <<HexDigits[n + 1]>>
    ELSE Append(ToHex(n \div 16), HexDigits[(n % 16) + 1])

Ord(c) ==
    CASE c = "x" -> 120
      [] c = "y" -> 121
      [] OTHER -> 63

\* md5.new(payload).hexdigest(): a digest without collisions on the payloads
\* drawn here (every payload has its own number, written in hex)
RECURSIVE DigestNumber(_)
DigestNumber(p) ==
    IF Len(p) = 0 THEN 1
    ELSE 256 * DigestNumber(SubSeq(p, 1, Len(p) - 1)) + Ord(p[Len(p)])

Md5Hex(p) == ToHex(DigestNumber(p))

---------------------------------------------------------------------------
(* URLs and the key of a URL *)

UrlA == <<"h", "/", "p", "?", "t">>
UrlB == <<"h", "/", "p", "?", "u">>
Urls == {UrlA, UrlB}

\* the letters that occur here, the digits and "_.-"
AlwaysSafe ==
    {"h", "p", "t", "u", "F", "_", ".", "-"} \cup {Digits[i] : i \in 1..10}

\* quote that leaves a percent sign as it is
QuoteCharKeepsPercent(c) ==
    IF c \in AlwaysSafe \cup {"%"} THEN <<c>>
    ELSE CASE c = "/" -> <<"%", "2", "F">>
           [] c = "?" -> <<"%", "3", "F">>
           [] c = ":" -> <<"%", "3", "A">>
           [] OTHER -> <<"%", "3", "D">>

\* quote(c, ''): every character outside the always-safe set becomes %XX
QuoteChar(c) ==
    IF c \in AlwaysSafe THEN <<c>>
    ELSE CASE c = "/" -> <<"%", "2", "F">>
           [] c = "?" -> <<"%", "3", "F">>
           [] c = ":" -> <<"%", "3", "A">>
           [] c = "%" -> <<"%", "2", "5">>
           [] OTHER -> <<"%", "3", "D">>

RECURSIVE Quote(_)
Quote(url) ==
    IF Len(url) = 0 THEN <<>>
    ELSE QuoteChar(Head(url)) \o Quote(Tail(url))

Keys == {Quote(u) : u \in Urls}

\* full URLs as strings over a few characters, a percent sign among them
UrlChars == {"h", "/", "%", "2", "F"}

UrlStrings == SeqsUpTo(UrlChars, MaxUrlLen)

---------------------------------------------------------------------------
(* Messages, responses and the cache directory *)

XMd5 == "x-cache-md5"
XCode == "x-cache-code"
XMsg == "x-cache-msg"
ContentType == "content-type"

TextXml == <<"t", "/", "x">>
OK == <<"O", "K">>
Unavailable == <<"U", "n", "a", "v">>

Has(headers, k) == k \in DOMAIN headers

NoHeaders == [k \in {} |-> <<>>]

\* what the server sends besides status and body
NetHeaders == ContentType :> TextXml

StatusCodes == {200, 503}

Reason(code) == IF code = 200 THEN OK ELSE Unavailable

\* the body of a remote resource after its v-th change
BodyAt(v) == IF v % 2 = 0 THEN <<"x">> ELSE <<"y">>

NoResponse ==
    [code |-> 0, msg |-> None, headers |-> NoHeaders, body |-> <<>>, url |-> <<>>]

\* response.read() on a StringIO or a network response (lines 10, 55): the
\* body field is what is still unread; read() returns it all and leaves none
Read(response) ==
    [data |-> response.body, rest |-> [response EXCEPT !.body = <<>>]]

\* the response of the network for url u when the server answers with `code`
NetResponse(rem, u, code) ==
    [code |-> code, msg |-> Some(Reason(code)), headers |-> NetHeaders,
     body |-> BodyAt(rem[u]), url |-> u]

\* lines 52-59: the message http_response builds from a response
EntryOf(response) ==
    [headers |-> response.headers
                 @@ (XMd5 :> Md5Hex(response.body))
                 @@ (XCode :> IntToStr(response.code))
                 @@ (XMsg :> response.msg[1]),
     payload |-> response.body]

\* The text of an entry file.  A text is a sequence of tokens: a header name,
\* ":", the characters of a value, "\n", the characters of the payload.  (The
\* "From nobody" line str(data) puts first and the blank after the colon are
\* left out; the parser skips both.)
NewLine == "\n"

\* lines 53-58: the headers of the response first, then the three fields
HeaderOrder == <<ContentType, XMd5, XCode, XMsg>>

RECURSIVE HeaderLines(_, _)
HeaderLines(headers, names) ==
    IF names = <<>> THEN <<>>
    ELSE (IF Has(headers, Head(names))
          THEN <<Head(names), ":">> \o headers[Head(names)] \o <<NewLine>>
          ELSE <<>>)
         \o HeaderLines(headers, Tail(names))

\* str(data), line 63: the header lines, an empty line, the payload
AsString(data) ==
    HeaderLines(data.headers, HeaderOrder) \o <<NewLine>> \o data.payload

\* email.message_from_file(f), line 30, reading from token i on: header lines
\* up to the empty line, the rest is the payload; a line that is no header
\* ends the headers and starts the payload; of two fields with one name the
\* first is the one data[name] gives
RECURSIVE ParseFrom(_, _, _)
ParseFrom(text, i, headers) ==
    IF i > Len(text) THEN [headers |-> headers, payload |-> <<>>]
    ELSE IF text[i] = NewLine
         THEN [headers |-> headers, payload |-> SubSeq(text, i + 1, Len(text))]
    ELSE IF i = Len(text) \/ text[i + 1] # ":"
         THEN [headers |-> headers, payload |-> SubSeq(text, i, Len(text))]
    ELSE LET ends == {j \in (i + 2)..Len(text) : text[j] = NewLine}
             j == IF ends = {} THEN Len(text) + 1
                  ELSE CHOOSE e \in ends : \A f \in ends : e <= f
         IN  ParseFrom(text, j + 1,
                       headers @@ (text[i] :> SubSeq(text, i + 2, j - 1)))

MessageFromFile(text) == ParseFrom(text, 1, NoHeaders)

\* the fields the constructor gives a handler
HandlerFields == {"cachedir"}

---------------------------------------------------------------------------
(* CachedHandler *)

Methods == {"GET", "POST"}

Declined(consulted) ==
    [kind |-> "none", resp |-> NoResponse, err |-> "none", consulted |-> consulted]

Raised(err, consulted) ==
    [kind |-> "raise", resp |-> NoResponse, err |-> err, consulted |-> consulted]

Opened(resp) ==
    [kind |-> "response", resp |-> resp, err |-> "none", consulted |-> TRUE]

\* default_open that looks into the directory whatever the method is
DefaultOpenAnyMethod(dir, req) ==
    LET path == Quote(req.url) IN
    IF path \notin DOMAIN dir THEN Declined(TRUE)
    ELSE LET data == dir[path] IN
         IF ~Has(data.headers, XMd5) THEN Declined(TRUE)
         ELSE IF data.headers[XMd5] # Md5Hex(data.payload) THEN Declined(TRUE)
         ELSE IF ~Has(data.headers, XCode) THEN Declined(TRUE)
         ELSE IF ~IntParses(data.headers[XCode]) THEN Raised("ValueError", TRUE)
         ELSE Opened([code |-> StrToInt(data.headers[XCode]),
                      msg |-> IF Has(data.headers, XMsg)
                              THEN Some(data.headers[XMsg]) ELSE None,
                      headers |-> data.headers,
                      body |-> data.payload,
                      url |-> req.url])

\* default_open that does not compare the digests (lines 34-35 left out)
DefaultOpenNoDigestCheck(dir, req) ==
    IF req.method # "GET" THEN Declined(FALSE)
    ELSE LET path == Quote(req.url) IN
         IF path \notin DOMAIN dir THEN Declined(TRUE)
         ELSE LET data == dir[path] IN
              IF ~Has(data.headers, XMd5) THEN Declined(TRUE)
              ELSE IF ~Has(data.headers, XCode) THEN Declined(TRUE)
              ELSE IF ~IntParses(data.headers[XCode]) THEN Raised("ValueError", TRUE)
              ELSE Opened([code |-> StrToInt(data.headers[XCode]),
                           msg |-> IF Has(data.headers, XMsg)
                                   THEN Some(data.headers[XMsg]) ELSE None,
                           headers |-> data.headers,
                           body |-> data.payload,
                           url |-> req.url])

\* default_open with the comparison of line 34 inverted (== for !=)
DefaultOpenDigestInverted(dir, req) ==
    IF req.method # "GET" THEN Declined(FALSE)
    ELSE LET path == Quote(req.url) IN
         IF path \notin DOMAIN dir THEN Declined(TRUE)
         ELSE LET data == dir[path] IN
              IF ~Has(data.headers, XMd5) THEN Declined(TRUE)
              ELSE IF data.headers[XMd5] = Md5Hex(data.payload) THEN Declined(TRUE)
              ELSE IF ~Has(data.headers, XCode) THEN Declined(TRUE)
              ELSE IF ~IntParses(data.headers[XCode]) THEN Raised("ValueError", TRUE)
              ELSE Opened([code |-> StrToInt(data.headers[XCode]),
                           msg |-> IF Has(data.headers, XMsg)
                                   THEN Some(data.headers[XMsg]) ELSE None,
                           headers |-> data.headers,
                           body |-> data.payload,
                           url |-> req.url])

\* default_open that hands out a CachedResponse it has read to the end
DefaultOpenConsumed(dir, req) ==
    IF req.method # "GET" THEN Declined(FALSE)
    ELSE LET path == Quote(req.url) IN
         IF path \notin DOMAIN dir THEN Declined(TRUE)
         ELSE LET data == dir[path] IN
              IF ~Has(data.headers, XMd5) THEN Declined(TRUE)
              ELSE IF data.headers[XMd5] # Md5Hex(data.payload) THEN Declined(TRUE)
              ELSE IF ~Has(data.headers, XCode) THEN Declined(TRUE)
              ELSE IF ~IntParses(data.headers[XCode]) THEN Raised("ValueError", TRUE)
              ELSE Opened([code |-> StrToInt(data.headers[XCode]),
                           msg |-> IF Has(data.headers, XMsg)
                                   THEN Some(data.headers[XMsg]) ELSE None,
                           headers |-> data.headers,
                           body |-> <<>>,
                           url |-> req.url])

\* default_open that opens the file without the test of line 28
DefaultOpenNoExistsTest(dir, req) ==
    IF req.method # "GET" THEN Declined(FALSE)
    ELSE LET path == Quote(req.url) IN
         IF path \notin DOMAIN dir THEN Raised("IOError", TRUE)
         ELSE LET data == dir[path] IN
              IF ~Has(data.headers, XMd5) THEN Declined(TRUE)
              ELSE IF data.headers[XMd5] # Md5Hex(data.payload) THEN Declined(TRUE)
              ELSE IF ~Has(data.headers, XCode) THEN Declined(TRUE)
              ELSE IF ~IntParses(data.headers[XCode]) THEN Raised("ValueError", TRUE)
              ELSE Opened([code |-> StrToInt(data.headers[XCode]),
                           msg |-> IF Has(data.headers, XMsg)
                                   THEN Some(data.headers[XMsg]) ELSE None,
                           headers |-> data.headers,
                           body |-> data.payload,
                           url |-> req.url])

\* default_open, lines 23-45: None (the opener goes on to the network), a
\* CachedResponse, or an exception that leaves the handler
DefaultOpen(dir, req) ==
    IF req.method # "GET" THEN Declined(FALSE)
    ELSE IF "cachedir" \notin HandlerFields THEN Raised("AttributeError", FALSE)
    ELSE LET path == Quote(req.url) IN
         IF path \notin DOMAIN dir THEN Declined(TRUE)
         ELSE LET data == dir[path]
                  payload == data.payload
              IN  IF ~Has(data.headers, XMd5) THEN Declined(TRUE)
                  ELSE IF data.headers[XMd5] # Md5Hex(payload) THEN Declined(TRUE)
                  \* int(None): TypeError, caught at line 42
                  ELSE IF ~Has(data.headers, XCode) THEN Declined(TRUE)
                  \* int('2x'): ValueError, which line 42 does not catch
                  ELSE IF ~IntParses(data.headers[XCode]) THEN Raised("ValueError", TRUE)
                  \* Message.__getitem__ gives None for a missing field
                  ELSE Opened([code |-> StrToInt(data.headers[XCode]),
                               msg |-> IF Has(data.headers, XMsg)
                                       THEN Some(data.headers[XMsg]) ELSE None,
                               headers |-> data.headers,
                               body |-> payload,
                               url |-> req.url])

\* default_open while another process works on the directory: `seen` is the
\* directory at os.path.exists (line 28), `dir` the directory at open (line
\* 29); open of a file that is gone raises IOError, and no try is around it
DefaultOpenBetween(seen, dir, req) ==
    IF req.method # "GET" THEN Declined(FALSE)
    ELSE IF Quote(req.url) \notin DOMAIN seen THEN Declined(TRUE)
    ELSE IF Quote(req.url) \notin DOMAIN dir THEN Raised("IOError", TRUE)
    ELSE DefaultOpen(dir, req)

Returned(resp, dir) == [kind |-> "response", resp |-> resp, err |-> "none", dir |-> dir]

Failed(err, dir) == [kind |-> "raise", resp |-> NoResponse, err |-> err, dir |-> dir]

\* http_response without the test of line 51: a response that came from the
\* directory is taken for a new one
HttpResponseNoMarkTest(dir, req, response, diskOk) ==
    IF req.method # "GET" THEN Returned(response, dir)
    ELSE IF "cache" \notin HandlerFields THEN Failed("AttributeError", dir)
    ELSE IF ~diskOk THEN Failed("IOError", dir)
    ELSE Returned([code |-> response.code, msg |-> response.msg,
                   headers |-> response.headers, body |-> response.body,
                   url |-> response.url],
                  (Quote(req.url) :> EntryOf(response)) @@ dir)

\* http_response that stores under self.cachedir and has no test of the method
HttpResponseStoresAnyMethod(dir, req, response, diskOk) ==
    IF Has(response.headers, XMd5) THEN Returned(response, dir)
    ELSE IF ~diskOk THEN Failed("IOError", dir)
    ELSE Returned([code |-> response.code, msg |-> response.msg,
                   headers |-> response.headers, body |-> response.body,
                   url |-> response.url],
                  (Quote(req.url) :> EntryOf(response)) @@ dir)

\* http_response, lines 47-71, on the response the opener got (from
\* default_open or from the network); diskOk: open(path, 'w') and write succeed
HttpResponse(dir, req, response, diskOk) ==
    IF req.method # "GET" THEN Returned(response, dir)
    ELSE IF Has(response.headers, XMd5) THEN Returned(response, dir)
    ELSE LET data == EntryOf(response)
             payload == Read(response).data
         IN  \* line 61 reads self.cache; the constructor sets self.cachedir
             IF "cache" \notin HandlerFields THEN Failed("AttributeError", dir)
             ELSE IF ~diskOk THEN Failed("IOError", dir)
             ELSE Returned([code |-> response.code, msg |-> response.msg,
                            headers |-> response.headers, body |-> payload,
                            url |-> response.url],
                           (Quote(req.url) :> data) @@ dir)

\* what the network does with a request: fail (URLError), or answer with a status
NetOutcomes ==
    {[ok |-> FALSE, code |-> 0]} \cup {[ok |-> TRUE, code |-> c] : c \in StatusCodes}

Result(outcome, err, resp, netCalls, consulted, dir) ==
    [outcome |-> outcome, err |-> err, resp |-> resp, netCalls |-> netCalls,
     consulted |-> consulted, dir |-> dir]

\* The opener the handler is installed in, after default_open gave `opened`:
\* when it declined, the network; then http_response on whichever response
Opener(opened, dir, rem, req, net, diskOk) ==
    CASE opened.kind = "raise" ->
            Result("error", opened.err, NoResponse, 0, opened.consulted, dir)
      [] opened.kind = "response" ->
            LET r == HttpResponse(dir, req, opened.resp, diskOk) IN
            IF r.kind = "raise"
            THEN Result("error", r.err, NoResponse, 0, TRUE, r.dir)
            ELSE Result("hit", "none", r.resp, 0, TRUE, r.dir)
      [] OTHER ->
            IF ~net.ok
            THEN Result("error", "URLError", NoResponse, 1, opened.consulted, dir)
            ELSE LET r == HttpResponse(dir, req, NetResponse(rem, req.url, net.code), diskOk) IN
                 IF r.kind = "raise"
                 THEN Result("error", r.err, NoResponse, 1, opened.consulted, r.dir)
                 ELSE Result("network", "none", r.resp, 1, opened.consulted, r.dir)

\* One request through the opener
OpenUrl(dir, rem, req, net, diskOk) ==
    Opener(DefaultOpen(dir, req), dir, rem, req, net, diskOk)

---------------------------------------------------------------------------
(* The cache directory at the start: any files *)

Optional(k, values) == {NoHeaders} \cup {k :> v : v \in values}

\* a status code field that is an integer, and one that is not
CodeFields == {IntToStr(200), <<"2", "x">>}

\* the digest of the payload, and the digest of another payload
DigestFields(p) == {Md5Hex(p), Md5Hex(Append(p, "x"))}

\* the entries a completed write of a network response leaves
WrittenMessages ==
    {EntryOf(NetResponse([u \in Urls |-> v], UrlA, code)) :
        v \in 0..1, code \in StatusCodes}

\* the messages a file of the directory can parse to: each bookkeeping field
\* present or not, right or wrong, over any payload
StoredMessages ==
    WrittenMessages \cup
    UNION {{[headers |-> NetHeaders @@ a @@ b @@ c, payload |-> p] :
                a \in Optional(XMd5, DigestFields(p)),
                b \in Optional(XCode, CodeFields),
                c \in Optional(XMsg, {OK})} :
           p \in Payloads}

Directories ==
    UNION {[ks -> StoredMessages] : ks \in SUBSET Keys}

\* at most one file of the directory is not a completed write
InitialDirectories ==
    {d \in Directories :
        Cardinality({k \in DOMAIN d : d[k] \notin WrittenMessages}) <= 1}

NoFetch ==
    [method |-> "none", url |-> <<>>, net |-> [ok |-> FALSE, code |-> 0],
     outcome |-> "none", err |-> "none", resp |-> NoResponse, netCalls |-> 0,
     consulted |-> FALSE, before |-> NoHeaders, version |-> 0]

CacheInit ==
    /\ store \in InitialDirectories
    /\ remote = [u \in Urls |-> 0]
    /\ last = NoFetch

\* fetch(method, url)
Fetch(m, u, net, diskOk) ==
    \E r \in {OpenUrl(store, remote, [method |-> m, url |-> u], net, diskOk)} :
        /\ store' = r.dir
        /\ last' = [method |-> m, url |-> u, net |-> net,
                    outcome |-> r.outcome, err |-> r.err, resp |-> r.resp,
                    netCalls |-> r.netCalls, consulted |-> r.consulted,
                    before |-> store, version |-> remote[u]]
        /\ UNCHANGED remote
        /\ UNCHANGED snapVars

\* the remote service changes the resource behind a URL
RECURSIVE SumOver(_, _)
SumOver(f, S) ==
    IF S = {} THEN 0
    ELSE LET x == CHOOSE y \in S : TRUE IN f[x] + SumOver(f, S \ {x})

RemoteChange(u) ==
    /\ SumOver(remote, Urls) < MaxChanges
    /\ remote' = [remote EXCEPT ![u] = @ + 1]
    /\ UNCHANGED <<store, last>>
    /\ UNCHANGED snapVars

CacheNext ==
    \/ \E m \in Methods, u \in Urls, net \in NetOutcomes, diskOk \in BOOLEAN :
            Fetch(m, u, net, diskOk)
    \/ \E u \in Urls : RemoteChange(u)

\* the directory without the file of a key
Without(dir, path) == [k \in DOMAIN dir \ {path} |-> dir[k]]

\* fetch(method, url) while another process removes the file of the URL
\* between line 28 and line 29 of default_open
FetchDuringRemoval(m, u, net, diskOk) ==
    /\ Quote(u) \in DOMAIN store
    /\ \E r \in {LET req == [method |-> m, url |-> u]
                      dir == Without(store, Quote(u))
                  IN  Opener(DefaultOpenBetween(store, dir, req),
                             dir, remote, req, net, diskOk)} :
          /\ store' = r.dir
          /\ last' = [method |-> m, url |-> u, net |-> net,
                      outcome |-> r.outcome, err |-> r.err, resp |-> r.resp,
                      netCalls |-> r.netCalls, consulted |-> r.consulted,
                      before |-> store, version |-> remote[u]]
    /\ UNCHANGED remote
    /\ UNCHANGED snapVars

\* the payloads of the response another process is storing
RacingPayloads == {<<>>, <<"x">>}

\* fetch(GET, url) while another process runs lines 62-64 for the same URL
\* with payload p and status code: the first n tokens of str(data) are in the
\* file when this process reads it (line 30); the other write ends afterwards
FetchDuringWrite(u, p, code, n, net, diskOk) ==
    \E text \in {AsString(EntryOf([code |-> code, msg |-> Some(Reason(code)),
                                    headers |-> NetHeaders, body |-> p,
                                    url |-> u]))} :
        /\ n <= Len(text)
        /\ \E dir \in {(Quote(u) :> MessageFromFile(SubSeq(text, 1, n))) @@ store} :
             \E r \in {OpenUrl(dir, remote, [method |-> "GET", url |-> u], net, diskOk)} :
                /\ store' = (Quote(u) :> MessageFromFile(text)) @@ r.dir
                /\ last' = [method |-> "GET", url |-> u, net |-> net,
                            outcome |-> r.outcome, err |-> r.err, resp |-> r.resp,
                            netCalls |-> r.netCalls, consulted |-> r.consulted,
                            before |-> dir, version |-> remote[u]]
        /\ UNCHANGED remote
        /\ UNCHANGED snapVars

RaceNext ==
    \/ \E m \in Methods, u \in Urls, net \in NetOutcomes, diskOk \in BOOLEAN :
            Fetch(m, u, net, diskOk)
    \/ \E u \in Urls : RemoteChange(u)
    \/ \E m \in Methods, u \in Urls, net \in NetOutcomes, diskOk \in BOOLEAN :
            FetchDuringRemoval(m, u, net, diskOk)

\* fetches, some of them while another process stores a response
WriteRaceNext ==
    \/ \E m \in Methods, u \in Urls, net \in NetOutcomes, diskOk \in BOOLEAN :
            Fetch(m, u, net, diskOk)
    \/ \E u \in Urls, p \in RacingPayloads, n \in 0..MaxTextLen, net \in NetOutcomes :
            FetchDuringWrite(u, p, 200, n, net, TRUE)

---------------------------------------------------------------------------
(* The snapshot files of dlcs: cached_tags and cached_posts *)

Kinds == {"posts", "tags"}

MaxSecond == MaxTick \div TicksPerSecond

NoFile == [present |-> FALSE, bytes |-> <<>>, mtime |-> 0]

\* what posts/all or tags/get returns for the v-th state of a collection
ListBytes(kind, v) == <<kind, v>>

\* a struct_time: the calendar fields (as seconds) and tm_isdst
\* time.gmtime(t): the fraction of t is dropped, tm_isdst is 0
GmTime(t) == <<t \div TicksPerSecond, 0>>

\* the parsed time with tm_isdst 1 instead of -1
UpdateTimeDst(seconds) == <<seconds, 1>>

\* posts_update()['update']['time']: parsed from text, tm_isdst is -1
UpdateTime(seconds) == <<seconds, -1>>

\* a < b on two struct_times (tuples compare field by field)
TimeLess(a, b) == a[1] < b[1] \/ (a[1] = b[1] /\ a[2] < b[2])

\* the comparison with <= on the seconds
IsStaleOrSameSecond(file, lastupdate) == GmTime(file.mtime)[1] <= lastupdate[1]

\* the comparison the other way round (> for <)
IsStaleInverted(file, lastupdate) == TimeLess(lastupdate, GmTime(file.mtime))

\* lines 1159 and 1177: the file is older than the last update of the posts
IsStale(file, lastupdate) == TimeLess(GmTime(file.mtime), lastupdate)

FetchOutcomes == {"ok", "request fails", "read fails"}

\* cache_file that writes the tags file whichever list is loaded
CacheFileTagsOnly(fs, kind, coll, clock, fetch) ==
    CASE fetch = "request fails" -> [files |-> fs, outcome |-> fetch]
      [] fetch = "read fails" ->
            [files |-> [fs EXCEPT !["tags"] =
                            [present |-> TRUE, bytes |-> <<>>, mtime |-> clock]],
             outcome |-> fetch]
      [] OTHER ->
            [files |-> [fs EXCEPT !["tags"] =
                            [present |-> TRUE, bytes |-> ListBytes(kind, coll[kind]),
                             mtime |-> clock]],
             outcome |-> "returned"]

\* cache_file(fn, dlcs.<list>(_raw=True)), lines 1140-1141 with the call of
\* lines 1155, 1161, 1173, 1179: the request is made first; open(fn, 'w')
\* then empties the file before data.read() is evaluated
CacheFile(fs, kind, coll, clock, fetch) ==
    CASE fetch = "request fails" -> [files |-> fs, outcome |-> fetch]
      [] fetch = "read fails" ->
            [files |-> [fs EXCEPT ![kind] =
                            [present |-> TRUE, bytes |-> <<>>, mtime |-> clock]],
             outcome |-> fetch]
      [] OTHER ->
            [files |-> [fs EXCEPT ![kind] =
                            [present |-> TRUE, bytes |-> ListBytes(kind, coll[kind]),
                             mtime |-> clock]],
             outcome |-> "returned"]

\* the end of a load: the parsed file is returned (line 1163, 1181), or the
\* exception of a remote call leaves the function
Loaded(kind, fs, tsCalls, fetched, outcome) ==
    [files |-> fs, tsCalls |-> tsCalls,
     fetches |-> [k \in Kinds |-> IF k = kind /\ fetched THEN 1 ELSE 0],
     outcome |-> outcome,
     returned |-> IF outcome = "returned" THEN fs[kind].bytes ELSE <<>>]

\* the load with noupdate tested before the file: --keep-cache never fetches
CachedListKeepFirst(kind, noupdate, fs, coll, upd, clock, tsOk, fetch) ==
    IF noupdate THEN Loaded(kind, fs, 0, FALSE, "returned")
    ELSE IF ~fs[kind].present
         THEN LET w == CacheFile(fs, kind, coll, clock, fetch)
              IN  Loaded(kind, w.files, 0, TRUE, w.outcome)
         ELSE IF ~tsOk THEN Loaded(kind, fs, 1, FALSE, "posts_update fails")
              ELSE IF IsStale(fs[kind], UpdateTime(upd))
                   THEN LET w == CacheFile(fs, kind, coll, clock, fetch)
                        IN  Loaded(kind, w.files, 1, TRUE, w.outcome)
                   ELSE Loaded(kind, fs, 1, FALSE, "returned")

\* the load that checks the file's age whatever noupdate is
CachedListAlwaysChecks(kind, noupdate, fs, coll, upd, clock, tsOk, fetch) ==
    IF ~fs[kind].present
    THEN LET w == CacheFile(fs, kind, coll, clock, fetch)
         IN  Loaded(kind, w.files, 0, TRUE, w.outcome)
    ELSE IF ~tsOk THEN Loaded(kind, fs, 1, FALSE, "posts_update fails")
         ELSE IF IsStale(fs[kind], UpdateTime(upd))
              THEN LET w == CacheFile(fs, kind, coll, clock, fetch)
                   IN  Loaded(kind, w.files, 1, TRUE, w.outcome)
              ELSE Loaded(kind, fs, 1, FALSE, "returned")

\* cached_tags (lines 1146-1164) and cached_posts (lines 1166-1182); they
\* differ in the file and in the list they fetch.  tsOk: posts_update answers
CachedList(kind, noupdate, fs, coll, upd, clock, tsOk, fetch) ==
    IF ~fs[kind].present
    THEN LET w == CacheFile(fs, kind, coll, clock, fetch)
         IN  Loaded(kind, w.files, 0, TRUE, w.outcome)
    ELSE IF ~noupdate
         THEN IF ~tsOk THEN Loaded(kind, fs, 1, FALSE, "posts_update fails")
              ELSE IF IsStale(fs[kind], UpdateTime(upd))
                   THEN LET w == CacheFile(fs, kind, coll, clock, fetch)
                        IN  Loaded(kind, w.files, 1, TRUE, w.outcome)
                   ELSE Loaded(kind, fs, 1, FALSE, "returned")
         ELSE Loaded(kind, fs, 0, FALSE, "returned")

\* the arguments of clearcache: names of kinds, or none
ClearArgs == SUBSET Kinds

\* lines 1049-1050: no argument stands for both kinds
Named(clear) == IF clear = {} THEN {"tags", "posts"} ELSE clear

\* clearcache without the default of lines 1049-1050
ClearCacheNoDefault(fs, clear) ==
    [k \in Kinds |-> IF k \in clear THEN NoFile ELSE fs[k]]

\* clearcache that empties the files in place of unlinking them
ClearCacheTruncates(fs, clear) ==
    [k \in Kinds |-> IF k \in Named(clear) /\ fs[k].present
                     THEN [fs[k] EXCEPT !.bytes = <<>>]
                     ELSE fs[k]]

\* clearcache, lines 1042-1064: os.unlink of each named file; the OSError
\* for a file that is not there is swallowed by the bare except
ClearCache(fs, clear) ==
    [k \in Kinds |-> IF k \in Named(clear) THEN NoFile ELSE fs[k]]

NoLoad ==
    [kind |-> "none", noupdate |-> FALSE, clear |-> {}, cleared |-> FALSE,
     before |-> [k \in Kinds |-> NoFile], after |-> [k \in Kinds |-> NoFile],
     update |-> 0, listState |-> 0,
     tsCalls |-> 0, fetches |-> [k \in Kinds |-> 0],
     outcome |-> "none", returned |-> <<>>]

SnapInit ==
    /\ files = [k \in Kinds |-> NoFile]
    /\ now = 0
    /\ update = 0
    /\ collection = [k \in Kinds |-> 0]
    /\ lastLoad = NoLoad

\* load(kind, skipFreshnessCheck)
Load(kind, noupdate, tsOk, fetch) ==
    \E r \in {CachedList(kind, noupdate, files, collection, update, now, tsOk, fetch)} :
        /\ files' = r.files
        /\ lastLoad' = [kind |-> kind, noupdate |-> noupdate, clear |-> {},
                        \* clearcache removed this kind's file just before
                        cleared |-> /\ lastLoad.kind = "clear"
                                    /\ kind \in Named(lastLoad.clear),
                        before |-> files, after |-> r.files,
                        update |-> update, listState |-> collection[kind],
                        tsCalls |-> r.tsCalls, fetches |-> r.fetches,
                        outcome |-> r.outcome, returned |-> r.returned]
        /\ UNCHANGED <<now, update, collection>>
        /\ UNCHANGED cacheVars

\* dlcs clear [tags | posts]
Clear(clear) ==
    \E fs \in {ClearCache(files, clear)} :
        /\ files' = fs
        /\ lastLoad' = [kind |-> "clear", noupdate |-> FALSE, clear |-> clear,
                        cleared |-> FALSE,
                        before |-> files, after |-> fs,
                        update |-> update, listState |-> 0,
                        tsCalls |-> 0, fetches |-> [k \in Kinds |-> 0],
                        outcome |-> "returned", returned |-> <<>>]
        /\ UNCHANGED <<now, update, collection>>
        /\ UNCHANGED cacheVars

\* info with `and` for the `or` of line 488
InfoBothOlder(fs, upd, tsOk) ==
    IF ~tsOk THEN [tsCalls |-> 1, outOfDate |-> FALSE, outcome |-> "posts_update fails"]
    ELSE [tsCalls |-> 1,
          outOfDate |->
              /\ fs["tags"].present
              /\ TimeLess(GmTime(fs["tags"].mtime), UpdateTime(upd))
              /\ fs["posts"].present
              /\ TimeLess(GmTime(fs["posts"].mtime), UpdateTime(upd)),
          outcome |-> "returned"]

\* info, lines 465-489: one posts_update call (line 471), then "Cache is
\* out of date" is printed when u > time.gmtime(mtime) for a file that
\* exists (line 488); u > g on two struct_times is g < u
Info(fs, upd, tsOk) ==
    IF ~tsOk THEN [tsCalls |-> 1, outOfDate |-> FALSE, outcome |-> "posts_update fails"]
    ELSE [tsCalls |-> 1,
          outOfDate |->
              \/ /\ fs["tags"].present
                 /\ TimeLess(GmTime(fs["tags"].mtime), UpdateTime(upd))
              \/ /\ fs["posts"].present
                 /\ TimeLess(GmTime(fs["posts"].mtime), UpdateTime(upd)),
          outcome |-> "returned"]

\* dlcs info
ShowInfo(tsOk) ==
    \E r \in {Info(files, update, tsOk)} :
        /\ lastLoad' = [kind |-> "info", noupdate |-> FALSE, clear |-> {},
                        cleared |-> FALSE,
                        before |-> files, after |-> files,
                        update |-> update, listState |-> 0,
                        tsCalls |-> r.tsCalls, fetches |-> [k \in Kinds |-> 0],
                        outcome |-> r.outcome, returned |-> <<>>,
                        outOfDate |-> r.outOfDate]
        /\ UNCHANGED <<files, now, update, collection>>
        /\ UNCHANGED cacheVars

\* local time passes
Tick ==
    /\ now < MaxTick
    /\ now' = now + 1
    /\ UNCHANGED <<files, update, collection, lastLoad>>
    /\ UNCHANGED cacheVars

\* a post is added remotely: posts/update reports a later time
RemotePost(seconds) ==
    /\ seconds > update
    /\ collection["posts"] < MaxEdits
    /\ update' = seconds
    /\ collection' = [collection EXCEPT !["posts"] = @ + 1]
    /\ UNCHANGED <<files, now, lastLoad>>
    /\ UNCHANGED cacheVars

\* a post or a tag is edited remotely: posts/update does not notice
RemoteEdit(kind) ==
    /\ collection[kind] < MaxEdits
    /\ collection' = [collection EXCEPT ![kind] = @ + 1]
    /\ UNCHANGED <<files, now, update, lastLoad>>
    /\ UNCHANGED cacheVars

\* load(kind, skipFreshnessCheck) while another process is inside cache_file
\* (line 1141) for the same file: its open(fn, 'w') has emptied the file and
\* `part` tokens of its list are written when this process looks at the file;
\* the other write ends afterwards
LoadDuringRefresh(kind, noupdate, tsOk, fetch, part) ==
    LET list == ListBytes(kind, collection[kind])
        seen == [files EXCEPT ![kind] =
                    [present |-> TRUE, bytes |-> SubSeq(list, 1, part),
                     mtime |-> now]]
    IN  /\ part < Len(list)
        /\ \E r \in {CachedList(kind, noupdate, seen, collection, update, now,
                                 tsOk, fetch)} :
              /\ files' = [r.files EXCEPT ![kind] =
                              [present |-> TRUE, bytes |-> list, mtime |-> now]]
              /\ lastLoad' = [kind |-> kind, noupdate |-> noupdate, clear |-> {},
                              cleared |-> FALSE,
                              before |-> seen, after |-> r.files,
                              update |-> update, listState |-> collection[kind],
                              tsCalls |-> r.tsCalls, fetches |-> r.fetches,
                              outcome |-> r.outcome, returned |-> r.returned]
        /\ UNCHANGED <<now, update, collection>>
        /\ UNCHANGED cacheVars

SnapNext ==
    \/ \E kind \in Kinds, noupdate \in BOOLEAN, tsOk \in BOOLEAN, fetch \in FetchOutcomes :
            Load(kind, noupdate, tsOk, fetch)
    \/ \E clear \in ClearArgs : Clear(clear)
    \/ \E tsOk \in BOOLEAN : ShowInfo(tsOk)
    \/ Tick
    \/ \E seconds \in 1..MaxSecond : RemotePost(seconds)
    \/ \E kind \in Kinds : RemoteEdit(kind)

\* loads, some of them while another process refreshes the file
LoadRaceNext ==
    \/ \E kind \in Kinds, noupdate \in BOOLEAN, tsOk \in BOOLEAN, fetch \in FetchOutcomes :
            Load(kind, noupdate, tsOk, fetch)
    \/ Tick
    \/ \E seconds \in 1..MaxSecond : RemotePost(seconds)
    \/ \E kind \in Kinds, noupdate \in BOOLEAN, tsOk \in BOOLEAN,
          fetch \in FetchOutcomes, part \in 0..1 :
            LoadDuringRefresh(kind, noupdate, tsOk, fetch, part)

---------------------------------------------------------------------------
(* Specifications *)

\* the handler alone, no snapshot file yet
Init == CacheInit /\ SnapInit

Spec == Init /\ [][CacheNext]_vars

\* the snapshots alone, over an empty cache directory
LoadInit ==
    /\ SnapInit
    /\ store = NoHeaders
    /\ remote = [u \in Urls |-> 0]
    /\ last = NoFetch

LoadSpec == LoadInit /\ [][SnapNext]_vars

\* the snapshots, and another process that refreshes them
LoadRaceSpec == LoadInit /\ [][LoadRaceNext]_vars

\* the handler, and another process that removes files of the directory
RaceSpec == Init /\ [][RaceNext]_vars

\* the handler over a directory that is empty at the start, and another
\* process that stores responses in it
WriteRaceInit ==
    /\ SnapInit
    /\ store = NoHeaders
    /\ remote = [u \in Urls |-> 0]
    /\ last = NoFetch

WriteRaceSpec == WriteRaceInit /\ [][WriteRaceNext]_vars

---------------------------------------------------------------------------
(* What the claims speak of, in terms of the last fetch *)

LastKey == Quote(last.url)

LastGet == last.method = "GET"

HadEntry == LastGet /\ LastKey \in DOMAIN last.before

EntryBefore == last.before[LastKey]

\* the specification's verify(entry): digest present and equal to the digest
\* of the payload, status code present and an integer, status message present
Verifies(e) ==
    /\ Has(e.headers, XMd5)
    /\ e.headers[XMd5] = Md5Hex(e.payload)
    /\ Has(e.headers, XCode)
    /\ IntParses(e.headers[XCode])
    /\ Has(e.headers, XMsg)

\* the response the network gave, or would have given, to the last fetch
LastNetResponse ==
    NetResponse([u \in Urls |-> last.version], last.url, last.net.code)

\* C1: a GET fetch of a URL whose stored entry verifies returns a response
\* built from the stored payload, status code, status message and headers,
\* and makes no network call.
C1_VerifiedEntryIsServed ==
    (HadEntry /\ Verifies(EntryBefore)) =>
        /\ last.outcome = "hit"
        /\ last.netCalls = 0
        /\ last.resp.body = EntryBefore.payload
        /\ last.resp.code = StrToInt(EntryBefore.headers[XCode])
        /\ last.resp.msg = Some(EntryBefore.headers[XMsg])
        /\ last.resp.headers = EntryBefore.headers
        /\ last.resp.url = last.url

C1_Witness ==
    /\ HadEntry
    /\ Verifies(EntryBefore)
    /\ last.outcome = "hit"
    /\ last.resp.code = 503

\* C2: with no entry for the URL, a GET fetch the network answers makes one
\* network call, returns the response and leaves an entry under the URL's key
\* (which a second fetch can then serve).
C2_FirstFetchPersists ==
    (LastGet /\ LastKey \notin DOMAIN last.before /\ last.net.ok) =>
        /\ last.netCalls = 1
        /\ last.outcome = "network"
        /\ LastKey \in DOMAIN store
        /\ Verifies(store[LastKey])

\* C3: a fetch with a method other than GET never consults the cache
\* directory and never writes it; the request goes to the network, entry or
\* no entry.
C3_OtherMethodsBypass ==
    (last.method \in Methods \ {"GET"}) =>
        /\ ~last.consulted
        /\ store = last.before
        /\ last.netCalls = 1
        /\ last.net.ok => (last.outcome = "network" /\ last.resp = LastNetResponse)
        /\ ~last.net.ok => (last.outcome = "error" /\ last.err = "URLError")

C3_Witness ==
    /\ last.method = "POST"
    /\ LastKey \in DOMAIN last.before
    /\ Verifies(EntryBefore)
    /\ last.outcome = "network"

\* C4: when the stored digest differs from the digest of the stored payload,
\* a GET fetch does not serve the stored payload: it is a miss, with exactly
\* one network call.
C4_TamperedEntryMisses ==
    (HadEntry /\ Has(EntryBefore.headers, XMd5)
              /\ EntryBefore.headers[XMd5] # Md5Hex(EntryBefore.payload)) =>
        /\ last.outcome # "hit"
        /\ last.netCalls = 1
        /\ last.resp.body # EntryBefore.payload \/ last.resp = NoResponse

C4_Witness ==
    /\ HadEntry
    /\ Has(EntryBefore.headers, XMd5)
    /\ EntryBefore.headers[XMd5] # Md5Hex(EntryBefore.payload)
    /\ Has(EntryBefore.headers, XCode)
    /\ Has(EntryBefore.headers, XMsg)
    /\ last.netCalls = 1

\* C5: an entry is served as a hit only if its digest is present and right,
\* its status code is present and an integer, and its status message is
\* present.
C5_HitOnlyIfVerified ==
    last.outcome = "hit" => Verifies(EntryBefore)

\* C6: whatever the stored record holds, a GET fetch does not fail because of
\* it: a record that does not verify is a miss and the request goes to the
\* network.
C6_BadRecordIsAMiss ==
    (HadEntry /\ ~Verifies(EntryBefore)) =>
        /\ last.err # "ValueError"
        /\ last.outcome # "hit"
        /\ last.netCalls = 1

\* C7: when the network answered a GET fetch and the entry could not be
\* stored, the fetch still returns the network response and raises nothing.
C7_FailedWriteIsHarmless ==
    (LastGet /\ last.netCalls = 1 /\ last.net.ok
             /\ (LastKey \notin DOMAIN store \/ store = last.before)) =>
        /\ last.err = "none"
        /\ last.outcome = "network"
        /\ last.resp = LastNetResponse

\* C8: the response of a hit equals the network response the entry was
\* written from: status code, status message, URL, body and headers.
C8_HitEqualsNetworkResponse ==
    \A v \in 0..MaxChanges, code \in StatusCodes :
        LET written == NetResponse([u \in Urls |-> v], last.url, code) IN
        (last.outcome = "hit" /\ EntryBefore = EntryOf(written)) =>
            last.resp = written

\* C9 as claimed: no hit serves an entry after the remote resource changed.
C9_NoHitAfterRemoteChange ==
    last.outcome = "hit" => last.version = 0

\* C9, amended: the handler has no freshness check; a GET fetch of a URL
\* whose entry verifies serves the stored payload without a network call also
\* after the remote resource changed.
C9_HitIgnoresRemoteChange ==
    (HadEntry /\ Verifies(EntryBefore) /\ last.version > 0) =>
        /\ last.outcome = "hit"
        /\ last.netCalls = 0
        /\ last.resp.body = EntryBefore.payload

C9_Witness ==
    /\ last.outcome = "hit"
    /\ last.version > 0
    /\ last.resp.body # BodyAt(last.version)

---------------------------------------------------------------------------
(* What the claims speak of, in terms of the last load *)

LoadedKind == lastLoad.kind \in Kinds

FileBefore == lastLoad.before[lastLoad.kind]

FetchCount == lastLoad.fetches["posts"] + lastLoad.fetches["tags"]

\* C10: load(kind, false) on an existing snapshot whose modification time is
\* not before the time posts/update reports makes no full-list fetch, leaves
\* the file as it was (bytes and modification time) and returns its bytes;
\* equal times included.
C10_FreshSnapshotIsKept ==
    (/\ LoadedKind
     /\ ~lastLoad.noupdate
     /\ FileBefore.present
     /\ lastLoad.outcome # "posts_update fails"
     /\ FileBefore.mtime >= lastLoad.update * TicksPerSecond) =>
        /\ FetchCount = 0
        /\ lastLoad.after = lastLoad.before
        /\ lastLoad.outcome = "returned"
        /\ lastLoad.returned = FileBefore.bytes

C10_Witness ==
    /\ LoadedKind
    /\ ~lastLoad.noupdate
    /\ FileBefore.present
    /\ lastLoad.tsCalls = 1
    /\ lastLoad.update > 0
    /\ FileBefore.mtime = lastLoad.update * TicksPerSecond
    /\ lastLoad.returned = FileBefore.bytes
    /\ lastLoad.returned # ListBytes(lastLoad.kind, lastLoad.listState)
    /\ lastLoad.returned # <<>>


\* the list the remote service held for the loaded kind during the last load
ListThen == ListBytes(lastLoad.kind, lastLoad.listState)

\* the loaded file was older than the time posts/update reported
WasOlder == FileBefore.mtime < lastLoad.update * TicksPerSecond

RemoteAnswered ==
    lastLoad.outcome \notin {"posts_update fails", "request fails", "read fails"}

\* C11: load(kind, false) on an existing snapshot older than the time
\* posts/update reports makes exactly one full-list fetch, of that kind,
\* overwrites the file with the fetched bytes and returns those bytes.
C11_StaleSnapshotIsRefetched ==
    (/\ LoadedKind
     /\ ~lastLoad.noupdate
     /\ FileBefore.present
     /\ lastLoad.outcome # "posts_update fails"
     /\ WasOlder) =>
        /\ lastLoad.fetches[lastLoad.kind] = 1
        /\ FetchCount = 1
        /\ RemoteAnswered =>
              /\ lastLoad.outcome = "returned"
              /\ lastLoad.after[lastLoad.kind].present
              /\ lastLoad.after[lastLoad.kind].bytes = ListThen
              /\ lastLoad.returned = ListThen

C11_Witness ==
    /\ LoadedKind
    /\ ~lastLoad.noupdate
    /\ FileBefore.present
    /\ WasOlder
    /\ lastLoad.outcome = "returned"
    /\ FileBefore.bytes # <<>>
    /\ lastLoad.returned # FileBefore.bytes

\* C12: load(kind, skip) without a snapshot file makes exactly one full-list
\* fetch and no posts/update call, whatever skip is; it stores the fetched
\* bytes, returns them, and the snapshot is present afterwards.
C12_AbsentSnapshotIsFetched ==
    (LoadedKind /\ ~FileBefore.present) =>
        /\ lastLoad.tsCalls = 0
        /\ lastLoad.fetches[lastLoad.kind] = 1
        /\ FetchCount = 1
        /\ RemoteAnswered =>
              /\ lastLoad.outcome = "returned"
              /\ lastLoad.after[lastLoad.kind].present
              /\ lastLoad.after[lastLoad.kind].bytes = ListThen
              /\ lastLoad.returned = ListThen

C12_Witness ==
    /\ LoadedKind
    /\ ~FileBefore.present
    /\ lastLoad.noupdate
    /\ lastLoad.outcome = "returned"
    /\ lastLoad.returned = ListThen
    /\ files[lastLoad.kind].present

\* C13: load(kind, true) on an existing snapshot makes no remote call, leaves
\* the file as it is and returns its bytes, however much later the time of
\* posts/update is.
C13_KeepCacheMakesNoCall ==
    (LoadedKind /\ lastLoad.noupdate /\ FileBefore.present) =>
        /\ lastLoad.tsCalls = 0
        /\ FetchCount = 0
        /\ lastLoad.after = lastLoad.before
        /\ lastLoad.outcome = "returned"
        /\ lastLoad.returned = FileBefore.bytes

C13_Witness ==
    /\ LoadedKind
    /\ lastLoad.noupdate
    /\ FileBefore.present
    /\ WasOlder
    /\ lastLoad.returned # ListThen
    /\ lastLoad.outcome = "returned"

\* C14: a load makes at most one posts/update call and at most one full-list
\* fetch; exactly one posts/update call when the snapshot is present and the
\* check is not skipped; a full-list fetch only when the snapshot is absent
\* or found older.
C14_CallsPerLoad ==
    LoadedKind =>
        /\ lastLoad.tsCalls <= 1
        /\ FetchCount <= 1
        /\ (FileBefore.present /\ ~lastLoad.noupdate) => lastLoad.tsCalls = 1
        /\ FetchCount = 1 =>
              \/ ~FileBefore.present
              \/ (~lastLoad.noupdate /\ lastLoad.tsCalls = 1 /\ WasOlder)

C14_Witness ==
    /\ LoadedKind
    /\ lastLoad.tsCalls = 1
    /\ FetchCount = 1

\* C15: when the network call of a GET fetch fails, the caller gets that
\* failure, the network was called once and not again, and the directory is
\* as it was.
C15_NetworkFailureReachesCaller ==
    /\ last.netCalls <= 1
    /\ (LastGet /\ ~HadEntry /\ ~last.net.ok) => last.netCalls = 1
    /\ (LastGet /\ last.netCalls = 1 /\ ~last.net.ok) =>
          /\ last.outcome = "error"
          /\ last.err = "URLError"
          /\ last.resp = NoResponse
          /\ store = last.before

C15_Witness ==
    /\ LastGet
    /\ last.netCalls = 1
    /\ ~last.net.ok
    /\ last.err = "URLError"
    /\ DOMAIN store # {}

\* C16: for every response of the network that a GET fetch writes (the disk
\* not failing), reading the entry back gives an entry that verifies, with
\* the payload, the status code and the status message that were written,
\* and the headers of the response plus the three bookkeeping fields.
C16_WriteThenReadBack ==
    (LastGet /\ last.netCalls = 1 /\ last.net.ok /\ last.err # "IOError") =>
        LET r == LastNetResponse
            back == DefaultOpen(store, [method |-> "GET", url |-> last.url])
        IN  /\ LastKey \in DOMAIN store
            /\ Verifies(store[LastKey])
            /\ back.kind = "response"
            /\ back.resp.body = r.body
            /\ back.resp.code = r.code
            /\ back.resp.msg = r.msg
            /\ DOMAIN back.resp.headers = DOMAIN r.headers \cup {XMd5, XCode, XMsg}
            /\ \A k \in DOMAIN r.headers : back.resp.headers[k] = r.headers[k]

\* the file of the last fetch's URL was there at the start of the fetch and
\* is gone
EntryWentAway == HadEntry /\ LastKey \notin DOMAIN store

\* C17: when the file of the URL is removed between the test for it and the
\* read, the GET fetch takes it for a miss and goes on to the network.
C17_RemovedEntryIsAMiss ==
    EntryWentAway => (last.netCalls = 1 /\ last.err # "IOError")

\* C18: over any sequence of fetches an entry that verifies is never
\* rewritten; a hit writes nothing, and the directory is written only by a
\* GET fetch that missed and got a response from the network.
C18_VerifiedEntryIsNeverRewritten ==
    last.method # "none" =>
        /\ \A k \in DOMAIN last.before :
              Verifies(last.before[k]) =>
                  (k \in DOMAIN store /\ store[k] = last.before[k])
        /\ last.outcome = "hit" => store = last.before
        /\ store # last.before =>
              /\ LastGet
              /\ last.outcome # "hit"
              /\ last.netCalls = 1
              /\ last.net.ok

C18_Witness ==
    /\ HadEntry
    /\ Verifies(EntryBefore)
    /\ last.outcome = "hit"
    /\ store = last.before
    /\ \E k \in DOMAIN store : k # LastKey /\ Verifies(store[k])

\* quote gives different URLs different keys
QuoteIsInjective ==
    \A u \in UrlStrings, v \in UrlStrings : (Quote(u) = Quote(v)) <=> (u = v)

\* C19: the key is a function of the full URL, query string included, and
\* different URLs have different keys, so a GET fetch never returns the
\* entry of another URL.
C19_KeysSeparateUrls ==
    /\ QuoteIsInjective
    /\ \A u \in Urls, v \in Urls : (Quote(u) = Quote(v)) <=> (u = v)
    /\ last.outcome = "hit" =>
          /\ last.resp.url = last.url
          /\ last.resp.body = last.before[Quote(last.url)].payload
          /\ \A u \in Urls \ {last.url} :
                Quote(u) \in DOMAIN last.before =>
                    Quote(u) # Quote(last.url)

C19_Witness ==
    /\ last.outcome = "hit"
    /\ last.url = UrlB
    /\ Quote(UrlA) \in DOMAIN last.before
    /\ last.before[Quote(UrlA)].payload # last.resp.body
    /\ Verifies(last.before[Quote(UrlA)])

\* C20: the tags snapshot is judged by the time of posts/update: load(tags,
\* false) on an existing snapshot refetches exactly when that time is later
\* than the file's modification time, so a remote change of the tags that
\* leaves posts/update alone causes no refetch and the old list is returned.
C20_TagsFollowPostsUpdate ==
    (/\ lastLoad.kind = "tags"
     /\ ~lastLoad.noupdate
     /\ FileBefore.present
     /\ lastLoad.outcome # "posts_update fails") =>
        /\ lastLoad.fetches["tags"] = 1 <=> WasOlder
        /\ ~WasOlder => (lastLoad.outcome = "returned"
                          /\ lastLoad.returned = FileBefore.bytes)

C20_Witness ==
    /\ lastLoad.kind = "tags"
    /\ ~lastLoad.noupdate
    /\ FileBefore.present
    /\ lastLoad.tsCalls = 1
    /\ lastLoad.outcome = "returned"
    /\ FetchCount = 0
    /\ FileBefore.bytes = ListBytes("tags", 0)
    /\ lastLoad.listState = 1
    /\ lastLoad.returned = ListBytes("tags", 0)

\* C21: the response a GET fetch returns, from the directory or from the
\* network, gives its whole body on the first read and nothing on later
\* reads; the body read is as long as the payload stored or received.
C21_BodyReadsOnce ==
    (LastGet /\ last.outcome \in {"hit", "network"}) =>
        LET first == Read(last.resp)
            second == Read(first.rest)
            payload == IF last.outcome = "hit" THEN EntryBefore.payload
                       ELSE LastNetResponse.body
        IN  /\ first.data = payload
            /\ Len(first.data) = Len(payload)
            /\ second.data = <<>>
            /\ Read(second.rest).data = <<>>

C21_Witness ==
    /\ LastGet
    /\ last.outcome = "hit"
    /\ Read(last.resp).data # <<>>
    /\ Read(Read(last.resp).rest).data = <<>>

\* C22: clearcache removes the snapshot files of the kinds it is given, both
\* when it is given none, leaves the file of a kind not named as it is, and
\* does not fail when a named file is not there.
C22_ClearRemovesNamedKinds ==
    lastLoad.kind = "clear" =>
        /\ lastLoad.outcome = "returned"
        /\ \A k \in Kinds :
              IF lastLoad.clear = {} \/ k \in lastLoad.clear
              THEN ~lastLoad.after[k].present
              ELSE lastLoad.after[k] = lastLoad.before[k]
        /\ lastLoad.tsCalls = 0
        /\ FetchCount = 0

C22_Witness ==
    /\ lastLoad.kind = "clear"
    /\ lastLoad.clear = {"tags"}
    /\ ~lastLoad.before["tags"].present
    /\ lastLoad.before["posts"].present
    /\ files["posts"].present

C24_FailedFetchKeepsSnapshot ==
    (/\ LoadedKind
     /\ FileBefore.present
     /\ lastLoad.outcome \in {"request fails", "read fails"}) =>
        lastLoad.after[lastLoad.kind] = FileBefore

\* C25: after a load(kind, false) that fetched the list, the modification
\* time of the file is not earlier than the time of posts/update that made
\* it stale, so the next load with the same posts/update time fetches
\* nothing.
C25_RefreshConverges ==
    (/\ LoadedKind
     /\ ~lastLoad.noupdate
     /\ FileBefore.present
     /\ FetchCount = 1
     /\ lastLoad.outcome = "returned") =>
        /\ lastLoad.after[lastLoad.kind].mtime \div TicksPerSecond >= lastLoad.update
        /\ ~IsStale(lastLoad.after[lastLoad.kind], UpdateTime(lastLoad.update))

\* C29: a load of one kind never creates, changes or removes the file of the
\* other kind and never fetches the other kind's list, whatever noupdate is.
C29_SnapshotsAreIndependent ==
    LoadedKind =>
        \A k \in Kinds \ {lastLoad.kind} :
            /\ lastLoad.after[k] = lastLoad.before[k]
            /\ lastLoad.fetches[k] = 0

C29_Witness ==
    /\ lastLoad.kind = "posts"
    /\ FetchCount = 1
    /\ lastLoad.outcome = "returned"
    /\ lastLoad.before["tags"].present
    /\ lastLoad.after["tags"] = lastLoad.before["tags"]
    /\ lastLoad.after["posts"] # lastLoad.before["posts"]

\* the last fetch was a GET that went to the network, got an answer, and the
\* disk did not refuse the write
GotNetworkResponse ==
    LastGet /\ last.netCalls = 1 /\ last.net.ok /\ last.err # "IOError"

\* default_open on the directory as it is now, for the URL of the last fetch
NextOpen == DefaultOpen(store, [method |-> "GET", url |-> last.url])

\* C26: after a GET fetch that missed on an entry that does not verify and
\* got a response from the network, the entry of the URL is one that
\* verifies, and the next GET fetch of the URL is a hit.
C26_CorruptEntryIsReplaced ==
    (GotNetworkResponse /\ HadEntry /\ ~Verifies(EntryBefore)) =>
        /\ LastKey \in DOMAIN store
        /\ Verifies(store[LastKey])
        /\ store[LastKey] # EntryBefore
        /\ NextOpen.kind = "response"

\* C30: the response of the network to a GET is stored whatever its status
\* code is, and a later GET fetch of the URL returns the stored status code
\* and message without a network call, also for an error status.
C30_AnyStatusIsStored ==
    (GotNetworkResponse /\ ~HadEntry) =>
        /\ LastKey \in DOMAIN store
        /\ Has(store[LastKey].headers, XCode)
        /\ store[LastKey].headers[XCode] = IntToStr(last.net.code)
        /\ NextOpen.kind = "response"
        /\ NextOpen.resp.code = last.net.code
        /\ NextOpen.resp.msg = Some(Reason(last.net.code))

\* C27: a GET fetch that reads the file of an entry while another process is
\* writing it never has a hit on a part of the record: what it reads either
\* fails verification or is the whole record.
C27_PartialEntryIsNeverAHit ==
    last.outcome = "hit" =>
        /\ LastKey \in DOMAIN store
        /\ last.before[LastKey] = store[LastKey]

\* C28: every load returns the whole bytes of the result of some full-list
\* fetch of its kind, also while another process refreshes the same file;
\* never an empty or cut-off snapshot.
C28_LoadReturnsWholeList ==
    (LoadedKind /\ lastLoad.outcome = "returned") =>
        \E v \in 0..MaxEdits : lastLoad.returned = ListBytes(lastLoad.kind, v)

\* load(kind, false) on the files info saw would fetch the list of kind k
WouldRefetch(k) ==
    CachedList(k, FALSE, lastLoad.before, collection, lastLoad.update, now,
               TRUE, "ok").fetches[k] = 1

\* C31: info prints "Cache is out of date" exactly when a snapshot file
\* exists whose modification time is earlier than the time of posts/update,
\* which is exactly when load(kind, false) would refetch an existing
\* snapshot; info makes one posts/update call, fetches no list and changes
\* no file.
C31_InfoReportsStaleness ==
    lastLoad.kind = "info" =>
        /\ lastLoad.tsCalls = 1
        /\ FetchCount = 0
        /\ files = lastLoad.before
        /\ lastLoad.outcome = "returned" =>
              /\ lastLoad.outOfDate <=>
                    \E k \in Kinds :
                        /\ lastLoad.before[k].present
                        /\ lastLoad.before[k].mtime < lastLoad.update * TicksPerSecond
              /\ lastLoad.outOfDate <=>
                    \E k \in Kinds : lastLoad.before[k].present /\ WouldRefetch(k)

C31_Witness ==
    /\ lastLoad.kind = "info"
    /\ lastLoad.outcome = "returned"
    /\ lastLoad.outOfDate
    /\ lastLoad.before["posts"].present
    /\ lastLoad.before["tags"].present
    /\ WouldRefetch("tags")
    /\ ~WouldRefetch("posts")

=============================================================================
